---------------------------- MODULE Spec2Model ----------------------------
(***************************************************************************)
(* A model of the orchestration core of AgentUI (agent_core):              *)
(*   - AgentManager's LLM configuration chain (_load_llm_config,           *)
(*     _fallback_to_local_config, reload_llm_config, get_llm_status),      *)
(*   - the task registry state machine (routes.submit_task,                *)
(*     AgentManager.process_task, cancel_task, get_task_status, shutdown), *)
(*   - the external task store's update endpoint (backend update_task).    *)
(* Python dicts that keep insertion order are sequences of records with    *)
(* unique names; None is the string "None".                                *)
(***************************************************************************)
EXTENDS Naturals, Sequences, FiniteSets, TLC

VARIABLES
    running,            \* AgentManager.running
    tasks,              \* AgentManager.tasks: task id -> record, or NoRecord
    mcp_clients,        \* AgentManager.mcp_clients: the registered service names
    llm_clients,        \* AgentManager.llm_clients: ordered dict name -> client
    llm_config,         \* AgentManager.llm_config: the active provider's entry, or NoConfig
    current_provider,   \* AgentManager.current_provider: a name, or None
    llm_status,         \* AgentManager.llm_status
    settings,           \* core.config.settings: the local configuration document
    initTask,           \* the asyncio task created by startup_event for initialize()
    execs,              \* the asyncio tasks created by submit_task (safe_process_task)
    store,              \* the external task store: the status column per task id
    reply,              \* the HTTP answer this step sent, NoReply when it sent none
    deferred,           \* ids whose Submit was answered "will be processed later"
    spawned,            \* number of Submit requests answered with success so far
    lastFetch,          \* outcome of the remote fetch of the last _load_llm_config
    loads,              \* number of _load_llm_config runs so far
    arg,                \* the argument of the helper function under study
    ret                 \* what that helper function returned, once it was called

vars == <<running, tasks, mcp_clients, llm_clients, llm_config, current_provider,
          llm_status, settings, initTask, execs, store, reply, deferred,
          spawned, lastFetch, loads, arg, ret>>

\* the state of the orchestrator proper
progVars == <<running, tasks, mcp_clients, llm_clients, llm_config, current_provider,
              llm_status, settings, initTask, execs, store, reply, deferred,
              spawned, lastFetch, loads>>

\* the state of a helper function studied on its own
pureVars == <<arg, ret>>

cfgVars == <<llm_clients, llm_config, current_provider, llm_status, settings,
             lastFetch, loads>>

taskVars == <<tasks, execs, store, deferred, spawned>>

None == "None"

(***************************************************************************)
(* Bounds of the model.                                                    *)
(***************************************************************************)
NumTaskIds == 2
MaxExecs == 2
MaxLoads == 2
MaxProviders == 2

TaskIds == {"t" \o ToString(i) : i \in 1..NumTaskIds}

(***************************************************************************)
(* Configuration documents.                                                *)
(***************************************************************************)
ProviderNames == {"anthropic", "openai", "gemini"}
ApiKeys == {"", "sk-1"}
OPENAI_DEFAULT_BASE == "https://api.openai.com/v1"

Entry(n, k) == [name |-> n, api_key |-> k, model |-> "m-" \o n,
                base_url |-> IF n \in {"openai", "gpt"} THEN OPENAI_DEFAULT_BASE ELSE None]

\* llm_config = None, as a value of the entries' shape
NoConfig == [name |-> None, api_key |-> None, model |-> None, base_url |-> None]

Entries == {Entry(n, k) : n \in ProviderNames, k \in ApiKeys}

RECURSIVE SeqsUpTo(_, _)
SeqsUpTo(S, n) ==
    IF n = 0 THEN {<<>>}
    ELSE LET shorter == SeqsUpTo(S, n - 1)
         IN  shorter \cup {Append(s, e) : s \in {t \in shorter : Len(t) = n - 1}, e \in S}

Names(provs) == {provs[i].name : i \in 1..Len(provs)}

UniqueNames(provs) == \A i, j \in 1..Len(provs) : provs[i].name = provs[j].name => i = j

ProviderLists == {p \in SeqsUpTo(Entries, MaxProviders) : UniqueNames(p)}

Docs == [default : ProviderNames, providers : ProviderLists]

\* what requests.get(...) in _load_llm_config can produce
FetchOutcomes ==
    [kind : {"ok"}, doc : Docs]
      \cup [kind : {"timeout", "refused", "http500", "badjson"}, doc : {None}]

(***************************************************************************)
(* Ordered-dict helpers.                                                   *)
(***************************************************************************)
HasKey(d, n) == \E i \in 1..Len(d) : d[i].name = n

Lookup(d, n) == d[CHOOSE i \in 1..Len(d) : d[i].name = n]

\* d[n] = v: an existing key keeps its position, a new key goes last
DictSet(d, n, v) ==
    IF HasKey(d, n)
    THEN [i \in 1..Len(d) |-> IF d[i].name = n THEN [name |-> n, client |-> v] ELSE d[i]]
    ELSE Append(d, [name |-> n, client |-> v])

Truthy(s) == s # "" /\ s # None

\* str.strip() of a credential: a credential of white space only becomes empty
key_strip(k) == IF k = " " THEN "" ELSE k

(***************************************************************************)
(* Client construction.                                                    *)
(***************************************************************************)
ANTHROPIC_AVAILABLE == TRUE
GEMINI_AVAILABLE == TRUE

_init_anthropic_client(clients, cfg) ==
    IF ~ANTHROPIC_AVAILABLE \/ ~Truthy(cfg.api_key) THEN clients
    ELSE DictSet(clients, "anthropic", cfg.api_key)

_init_openai_client(clients, cfg) ==
    IF ~Truthy(cfg.api_key) THEN clients
    ELSE LET base == IF cfg.base_url = None THEN OPENAI_DEFAULT_BASE ELSE cfg.base_url
         IN  IF base = OPENAI_DEFAULT_BASE
             THEN DictSet(DictSet(clients, "openai", cfg.api_key), "gpt", cfg.api_key)
             ELSE IF base = "https://api.deepseek.com"
             THEN DictSet(clients, "deepseek", cfg.api_key)
             ELSE DictSet(clients, "openai", cfg.api_key)

_init_gemini_client(clients, cfg) ==
    IF ~GEMINI_AVAILABLE \/ ~Truthy(cfg.api_key) THEN clients
    ELSE DictSet(clients, "gemini", cfg.api_key)

_init_deepseek_client(clients, cfg) ==
    IF ~Truthy(cfg.api_key) THEN clients
    ELSE DictSet(clients, "deepseek", cfg.api_key)

\* the if/elif chain of the provider loop
InitClientFor(clients, cfg) ==
    IF cfg.name = "anthropic" /\ Truthy(cfg.api_key) THEN _init_anthropic_client(clients, cfg)
    ELSE IF cfg.name \in {"gpt", "openai"} /\ Truthy(cfg.api_key) THEN _init_openai_client(clients, cfg)
    ELSE IF cfg.name = "gemini" /\ Truthy(cfg.api_key) THEN _init_gemini_client(clients, cfg)
    ELSE IF cfg.name = "deepseek" /\ Truthy(cfg.api_key) THEN _init_deepseek_client(clients, cfg)
    ELSE clients

RECURSIVE InitClients(_, _)
InitClients(clients, provs) ==
    IF provs = <<>> THEN clients
    ELSE InitClients(InitClientFor(clients, Head(provs)), Tail(provs))

StatusEntry(cfg) ==
    [name |-> cfg.name, configured |-> Truthy(cfg.api_key), model |-> cfg.model,
     api_key_set |-> Truthy(cfg.api_key)]

StatusOf(source, doc) ==
    [source |-> source, default_provider |-> doc.default,
     providers |-> [i \in 1..Len(doc.providers) |-> StatusEntry(doc.providers[i])]]

\* the selection that ends both loaders: the default if it is in the loaded set
\* and has a client, else the first key of llm_clients that is in the loaded set;
\* when there is none, current_provider and llm_config keep their values
SelectProvider(cs, doc, clients) ==
    IF HasKey(doc.providers, doc.default) /\ HasKey(clients, doc.default)
    THEN [cs EXCEPT !.current_provider = doc.default,
                    !.llm_config = Lookup(doc.providers, doc.default)]
    ELSE LET hits == {i \in 1..Len(clients) : HasKey(doc.providers, clients[i].name)}
         IN  IF hits = {} THEN cs
             ELSE LET first == CHOOSE i \in hits : \A j \in hits : i <= j
                  IN  [cs EXCEPT !.current_provider = clients[first].name,
                                 !.llm_config = Lookup(doc.providers, clients[first].name)]

\* the body both loaders share: status, clients, selection
ApplyDoc(cs, source, doc) ==
    LET clients == InitClients(cs.llm_clients, doc.providers)
    IN  SelectProvider([cs EXCEPT !.llm_status = StatusOf(source, doc),
                                  !.llm_clients = clients],
                       doc, clients)

_fallback_to_local_config(cs, local) == ApplyDoc(cs, "local", local)

\* _load_llm_config: a 200 answer is applied; a RequestException or any other
\* exception falls back to the local document; any other status code leaves
\* the try block without a return and without a fallback
_load_llm_config(cs, fetch, local) ==
    IF fetch.kind = "ok" THEN ApplyDoc(cs, "backend", fetch.doc)
    ELSE IF fetch.kind \in {"timeout", "refused", "badjson"}
    THEN _fallback_to_local_config(cs, local)
    ELSE cs

\* the value _load_llm_config returns
LoadReturns(fetch) == IF fetch.kind = "http500" THEN None ELSE "True"

CfgState == [llm_status |-> llm_status, llm_clients |-> llm_clients,
             current_provider |-> current_provider, llm_config |-> llm_config]


(***************************************************************************)
(* The provider gateway: the guard of _call_llm and its adapter families.  *)
(***************************************************************************)
LLM_UNCONFIGURED == "LLM service not configured"

ProviderReady(cp, clients) == cp # None /\ HasKey(clients, cp)

\* adapters whose provider call is awaited; the anthropic and gemini adapters
\* call a synchronous client inside the coroutine
AwaitedFamily(cp) == cp \in {"openai", "gpt", "azure", "ollama", "deepseek"}

KnownAdapter(cp) == AwaitedFamily(cp) \/ cp \in {"anthropic", "gemini"}

(***************************************************************************)
(* Tasks.                                                                  *)
(***************************************************************************)
\* a key that is not in the dict
NoRecord == [status |-> "absent", result |-> None, error |-> None]
Terminal == {"completed", "failed", "cancelled"}
Statuses == {"pending", "running"} \cup Terminal

\* the (tool_type, parameters) pairs submitted
Jobs == {
    [tool_type |-> "scheduler", params |-> "valid"],
    [tool_type |-> "chart_data_generator", params |-> "valid"],
    [tool_type |-> "ppt_generator", params |-> "text_description"],
    [tool_type |-> "ppt_generator", params |-> "latex_project"],
    [tool_type |-> "ppt_generator", params |-> "latex_project_ucas"],
    [tool_type |-> "video", params |-> "valid"] }

\* service_mapping of _call_mcp_service
ServiceOf(tool_type) ==
    CASE tool_type \in {"ppt", "ppt_generator"} -> "ppt_generator"
      [] tool_type \in {"chart", "chart_generator"} -> "chart_generator"
      [] tool_type = "scheduler" -> "schedule_reminder"
      [] tool_type \in {"api-docs", "api_doc_generator"} -> "api_doc_generator"
      [] OTHER -> None

\* settings.MCP_SERVICES_CONFIG, every service enabled
EnabledServices == {"ppt_generator", "chart_generator", "schedule_reminder", "api_doc_generator"}

IsProject(job) == job.params \in {"latex_project", "latex_project_ucas"}

NoReply == [op |-> "none", code |-> 0, body |-> None]

NewRecord == [status |-> "running", result |-> None, error |-> None]

NewExec(t, job) == [id |-> t, job |-> job, pc |-> "spawned", out |-> <<>>,
                    outcome |-> "none", msg |-> None]

\* _update_backend_task followed by the store's update_task: a delivered PUT
\* overwrites the stored status, a failed one is logged and dropped
Notify(st, t, status, delivered) ==
    IF delivered THEN [st EXCEPT ![t] = status] ELSE st

Sent(e, ev) == [e EXCEPT !.out = Append(@, ev)]

\* the except branch with the record written and no notification sent
FailTask_Silent(i, e, msg, raisedByDispatch, delivered) ==
    /\ tasks' = IF tasks[e.id] # NoRecord
                THEN [tasks EXCEPT ![e.id].status = "failed", ![e.id].error = msg]
                ELSE tasks
    /\ store' = store
    /\ execs' = [execs EXCEPT ![i] =
                   [e EXCEPT
                       !.pc = "await_done",
                       !.outcome = IF raisedByDispatch THEN "raised" ELSE "returned",
                       !.msg = msg]]

\* the except branch of process_task
FailTask(i, e, msg, raisedByDispatch, delivered) ==
    /\ tasks' = IF tasks[e.id] # NoRecord
                THEN [tasks EXCEPT ![e.id].status = "failed", ![e.id].error = msg]
                ELSE tasks
    /\ store' = Notify(store, e.id, "failed", delivered)
    /\ execs' = [execs EXCEPT ![i] =
                   [Sent(e, "notify_failed") EXCEPT
                       !.pc = "await_done",
                       !.outcome = IF raisedByDispatch THEN "raised" ELSE "returned",
                       !.msg = msg]]

\* CompleteTask with the record written only when the store took the update
CompleteTask_RecordOnlyIfDelivered(i, e, result, delivered) ==
    /\ tasks' = IF delivered /\ tasks[e.id] # NoRecord
                THEN [tasks EXCEPT ![e.id].status = "completed", ![e.id].result = result]
                ELSE tasks
    /\ store' = Notify(store, e.id, "completed", delivered)
    /\ execs' = [execs EXCEPT ![i] =
                   [Sent(e, "notify_completed") EXCEPT
                       !.pc = "await_done", !.outcome = "returned", !.msg = result]]

\* the lines after _process_with_llm returned: a record that is gone makes the
\* subscript raise KeyError, which the except branch handles
CompleteTask(i, e, result, delivered) ==
    IF tasks[e.id] = NoRecord
    THEN FailTask(i, e, "KeyError", FALSE, delivered)
    ELSE /\ tasks' = [tasks EXCEPT ![e.id].status = "completed", ![e.id].result = result]
         /\ store' = Notify(store, e.id, "completed", delivered)
         /\ execs' = [execs EXCEPT ![i] =
                        [Sent(e, "notify_completed") EXCEPT
                            !.pc = "await_done", !.outcome = "returned", !.msg = result]]

Suspend(i, e, pc, ev) ==
    /\ execs' = [execs EXCEPT ![i] = [Sent(e, ev) EXCEPT !.pc = pc]]
    /\ UNCHANGED <<tasks, store>>

\* what follows the provider's answer in each LLM-authored flow
AfterLLM(i, e, ok, delivered) ==
    IF ~ok THEN FailTask(i, e, "provider error", TRUE, delivered)
    ELSE IF e.job.tool_type = "chart_data_generator"
    THEN CompleteTask(i, e, "chart_data", delivered)
    ELSE Suspend(i, e, "await_compile", "compile")

\* the authoring step without its guard: the provider is called whatever is active
CallLLM_NoGuard(i, e, ok, delivered) ==
    IF AwaitedFamily(current_provider) \/ ~KnownAdapter(current_provider)
    THEN Suspend(i, e, "await_llm", "llm")
    ELSE AfterLLM(i, Sent(e, "llm"), ok, delivered)

\* the authoring step: the guard, then _call_llm
CallLLM(i, e, ok, delivered) ==
    IF ~ProviderReady(current_provider, llm_clients)
    THEN FailTask(i, e, LLM_UNCONFIGURED, TRUE, delivered)
    ELSE IF ~KnownAdapter(current_provider)
    THEN FailTask(i, e, "unsupported provider", TRUE, delivered)
    ELSE IF AwaitedFamily(current_provider)
    THEN Suspend(i, e, "await_llm", "llm")
    ELSE AfterLLM(i, Sent(e, "llm"), ok, delivered)


(***************************************************************************)
(* process_task, one action per stretch of code between two awaits.        *)
(***************************************************************************)
\* ProcessTaskStart without the running notification of line 427: the dispatch
\* starts with nothing sent to the task store
ProcessTaskStart_NoRunningNotice(i, D) ==
    /\ execs[i].pc = "spawned"
    /\ tasks' = [tasks EXCEPT ![execs[i].id] = NewRecord]
    /\ execs' = [execs EXCEPT ![i].pc = "await_running"]
    /\ reply' = NoReply
    /\ UNCHANGED <<store, running, mcp_clients, cfgVars, initTask, deferred, spawned>>

\* lines 415-427: the record is (re)created at running and the running
\* notification is sent and awaited
ProcessTaskStart(i, D) ==
    /\ execs[i].pc = "spawned"
    /\ \E delivered \in D :
          /\ tasks' = [tasks EXCEPT ![execs[i].id] = NewRecord]
          /\ store' = Notify(store, execs[i].id, "running", delivered)
          /\ execs' = [execs EXCEPT ![i] = [Sent(@, "notify_running") EXCEPT !.pc = "await_running"]]
    /\ reply' = NoReply
    /\ UNCHANGED <<running, mcp_clients, cfgVars, initTask, deferred, spawned>>

\* _process_with_llm up to its first await
Dispatch(i, D) ==
    /\ execs[i].pc = "await_running"
    /\ LET e == execs[i]
           tt == e.job.tool_type
       IN  \E ok \in BOOLEAN, delivered \in D :
             IF tt \in {"ppt", "ppt_generator"}
             THEN IF IsProject(e.job)
                  THEN IF "ppt_generator" \notin mcp_clients
                       THEN FailTask(i, e, "ppt service unavailable", TRUE, delivered)
                       ELSE Suspend(i, e, "await_extract", "extract")
                  ELSE CallLLM(i, e, ok, delivered)
             ELSE IF tt = "chart_data_generator"
             THEN CallLLM(i, e, ok, delivered)
             ELSE IF tt \in {"chart", "chart_generator", "scheduler", "api-docs", "api_doc_generator"}
             THEN IF ServiceOf(tt) = None \/ ServiceOf(tt) \notin mcp_clients
                  THEN FailTask(i, e, "unsupported tool type", TRUE, delivered)
                  ELSE Suspend(i, e, "await_mcp", "mcp")
             ELSE FailTask(i, e, "unsupported tool type", TRUE, delivered)
    /\ reply' = NoReply
    /\ UNCHANGED <<running, mcp_clients, cfgVars, initTask, deferred, spawned>>

\* _handle_latex_project after /extract_tex_content answered
ResumeExtract(i, D) ==
    /\ execs[i].pc = "await_extract"
    /\ \E extracted \in BOOLEAN, ok \in BOOLEAN, delivered \in D :
          IF ~extracted
          THEN FailTask(i, execs[i], "extract failed", TRUE, delivered)
          ELSE CallLLM(i, execs[i], ok, delivered)
    /\ reply' = NoReply
    /\ UNCHANGED <<running, mcp_clients, cfgVars, initTask, deferred, spawned>>

\* _call_openai_compatible after the awaited provider call answered
ResumeLLM(i, D) ==
    /\ execs[i].pc = "await_llm"
    /\ \E ok \in BOOLEAN, delivered \in D : AfterLLM(i, execs[i], ok, delivered)
    /\ reply' = NoReply
    /\ UNCHANGED <<running, mcp_clients, cfgVars, initTask, deferred, spawned>>

\* _call_mcp_service after the downstream service answered
ResumeMcp(i, D) ==
    /\ execs[i].pc = "await_mcp"
    /\ \E ok \in BOOLEAN, delivered \in D :
          IF ok THEN CompleteTask(i, execs[i], "service_json", delivered)
          ELSE FailTask(i, execs[i], "downstream service error", TRUE, delivered)
    /\ reply' = NoReply
    /\ UNCHANGED <<running, mcp_clients, cfgVars, initTask, deferred, spawned>>

\* what the compiler call can bring back: a body announcing success, a 2xx body
\* that does not, or an exception (unreachable, non-2xx, unreadable body)
CompileOutcomes == {"pdf", "no_success", "error"}

\* after the compiler answered: _generate_ppt_with_llm keeps the markup when
\* the call raised and passes on whatever body it was given;
\* _handle_latex_project raises on an exception, looks at the body and returns
\* its result mapping only on the branch without the style variant, and falls
\* off its end (returning None) on the branches with it
ResumeCompile(i, D) ==
    /\ execs[i].pc = "await_compile"
    /\ LET e == execs[i]
       IN  \E res \in CompileOutcomes, delivered \in D :
             IF ~IsProject(e.job)
             THEN CompleteTask(i, e, CASE res = "pdf" -> "latex_and_pdf"
                                       [] res = "no_success" -> "latex_without_pdf"
                                       [] OTHER -> "latex_and_compile_error", delivered)
             ELSE IF res = "error"
             THEN FailTask(i, e, "compile failed", TRUE, delivered)
             ELSE IF e.job.params = "latex_project_ucas"
             THEN CompleteTask(i, e, None, delivered)
             ELSE IF res = "no_success"
             THEN FailTask(i, e, "compile failed", TRUE, delivered)
             ELSE CompleteTask(i, e, "latex_and_pdf", delivered)
    /\ reply' = NoReply
    /\ UNCHANGED <<running, mcp_clients, cfgVars, initTask, deferred, spawned>>

Remove(s, i) == [j \in 1..(Len(s) - 1) |-> IF j < i THEN s[j] ELSE s[j + 1]]

\* process_task returns after the terminal notification was awaited, and the
\* asyncio task that ran it is done
ProcessTaskReturn(i) ==
    /\ execs[i].pc = "await_done"
    /\ execs' = Remove(execs, i)
    /\ reply' = NoReply
    /\ UNCHANGED <<running, tasks, mcp_clients, cfgVars, initTask, store, deferred, spawned>>

(***************************************************************************)
(* The HTTP handlers of api/routes.py and the lifecycle of main.py.        *)
(***************************************************************************)
Serving == initTask # "stopped"

\* POST /tasks
submit_task(t, job) ==
    /\ Serving
    /\ IF t = None
       THEN \* HTTPException(400) is raised inside the try and re-raised as 500
            /\ reply' = [op |-> "submit", code |-> 500, body |-> "missing task_id"]
            /\ UNCHANGED <<execs, deferred, spawned>>
       ELSE IF ~running
       THEN /\ reply' = [op |-> "submit", code |-> 200, body |-> "queued"]
            /\ spawned < MaxExecs
            /\ spawned' = spawned + 1
            /\ deferred' = deferred \cup {t}
            /\ UNCHANGED execs
       ELSE /\ spawned < MaxExecs
            /\ spawned' = spawned + 1
            /\ execs' = Append(execs, NewExec(t, job))
            /\ reply' = [op |-> "submit", code |-> 200, body |-> "accepted"]
            /\ UNCHANGED deferred
    /\ UNCHANGED <<running, tasks, mcp_clients, cfgVars, initTask, store>>

\* cancel_task that records the cancellation of an id it does not know
cancel_task_RecordsUnknownId(t, D) ==
    /\ Serving
    /\ \E delivered \in D :
          /\ tasks' = [tasks EXCEPT ![t] = [NewRecord EXCEPT !.status = "cancelled"]]
          /\ store' = Notify(store, t, "cancelled", delivered)
          /\ reply' = [op |-> "cancel", code |-> 200,
                       body |-> IF tasks[t] # NoRecord THEN "success" ELSE "not_found"]
    /\ UNCHANGED <<running, mcp_clients, cfgVars, initTask, execs, deferred, spawned>>

\* POST /tasks/{task_id}/cancel -> AgentManager.cancel_task; "not_found" is
\* the manager's {"status": "error", "message": <task does not exist>}, which
\* the route returns inside its 200 envelope
cancel_task(t, D) ==
    /\ Serving
    /\ IF tasks[t] # NoRecord
       THEN \E delivered \in D :
              /\ tasks' = [tasks EXCEPT ![t].status = "cancelled"]
              /\ store' = Notify(store, t, "cancelled", delivered)
              /\ reply' = [op |-> "cancel", code |-> 200, body |-> "success"]
       ELSE /\ reply' = [op |-> "cancel", code |-> 200, body |-> "not_found"]
            /\ UNCHANGED <<tasks, store>>
    /\ UNCHANGED <<running, mcp_clients, cfgVars, initTask, execs, deferred, spawned>>

\* GET /tasks/{task_id}/status -> AgentManager.get_task_status
get_task_status(t) ==
    /\ Serving
    /\ reply' = [op |-> "status", code |-> 200,
                 body |-> IF tasks[t] # NoRecord THEN "record" ELSE "not_found"]
    /\ UNCHANGED <<running, tasks, mcp_clients, cfgVars, initTask, execs, store, deferred, spawned>>

\* initialize that becomes operational only with an active provider
initialize_NeedsProvider(fetches) ==
    /\ initTask = "scheduled"
    /\ \E f \in fetches :
          LET cs == _load_llm_config(CfgState, f, settings)
          IN  /\ llm_status' = cs.llm_status
              /\ llm_clients' = cs.llm_clients
              /\ current_provider' = cs.current_provider
              /\ llm_config' = cs.llm_config
              /\ lastFetch' = f.kind
              /\ running' = (cs.current_provider # None)
    /\ loads' = loads + 1
    /\ mcp_clients' = EnabledServices
    /\ initTask' = "done"
    /\ reply' = NoReply
    /\ UNCHANGED <<settings, tasks, execs, store, deferred, spawned>>

\* AgentManager.initialize, run by the task startup_event created
initialize(fetches) ==
    /\ initTask = "scheduled"
    /\ \E f \in fetches :
          LET cs == _load_llm_config(CfgState, f, settings)
          IN  /\ llm_status' = cs.llm_status
              /\ llm_clients' = cs.llm_clients
              /\ current_provider' = cs.current_provider
              /\ llm_config' = cs.llm_config
              /\ lastFetch' = f.kind
    /\ loads' = loads + 1
    /\ mcp_clients' = EnabledServices
    /\ running' = TRUE
    /\ initTask' = "done"
    /\ reply' = NoReply
    /\ UNCHANGED <<settings, tasks, execs, store, deferred, spawned>>

\* POST /config/llm/reload -> AgentManager.reload_llm_config: the local
\* document is read again, then _load_llm_config runs
reload_llm_config(fetches, locals) ==
    /\ Serving
    /\ loads < MaxLoads
    /\ \E f \in fetches, l \in locals :
          LET cs == _load_llm_config(CfgState, f, l)
          IN  /\ settings' = l
              /\ llm_status' = cs.llm_status
              /\ llm_clients' = cs.llm_clients
              /\ current_provider' = cs.current_provider
              /\ llm_config' = cs.llm_config
              /\ lastFetch' = f.kind
              /\ reply' = [op |-> "reload", code |-> 200,
                           body |-> IF LoadReturns(f) = "True" /\ cs.current_provider # None
                                    THEN "success" ELSE "warning"]
    /\ loads' = loads + 1
    /\ UNCHANGED <<running, tasks, mcp_clients, initTask, execs, store, deferred, spawned>>

\* AgentManager.shutdown, run by shutdown_event
shutdown ==
    /\ Serving
    /\ running' = FALSE
    /\ tasks' = [t \in TaskIds |-> NoRecord]
    /\ mcp_clients' = {}
    /\ llm_clients' = <<>>
    /\ initTask' = "stopped"
    /\ UNCHANGED <<llm_config, current_provider, llm_status, settings, lastFetch, loads,
                   execs, store, deferred, spawned>>
    /\ reply' = NoReply

(***************************************************************************)
(* Specifications.                                                         *)
(***************************************************************************)
EmptyDoc == [default |-> "openai", providers |-> <<>>]
OpenAIDoc == [default |-> "openai", providers |-> <<Entry("openai", "sk-1")>>]
AnthropicDoc == [default |-> "anthropic", providers |-> <<Entry("anthropic", "sk-1")>>]

LocalDocs == {EmptyDoc, OpenAIDoc}

\* the fetch outcomes the task specification starts from
TaskFetches == {[kind |-> "ok", doc |-> OpenAIDoc], [kind |-> "ok", doc |-> AnthropicDoc],
                [kind |-> "timeout", doc |-> None]}

InitWith(locals) ==
    /\ running = FALSE
    /\ tasks = [t \in TaskIds |-> NoRecord]
    /\ mcp_clients = {}
    /\ llm_clients = <<>>
    /\ llm_config = NoConfig
    /\ current_provider = None
    /\ llm_status = [source |-> "unknown", default_provider |-> None, providers |-> <<>>]
    /\ settings \in locals
    /\ initTask = "scheduled"
    /\ execs = <<>>
    /\ store = [t \in TaskIds |-> "pending"]
    /\ reply = NoReply
    /\ deferred = {}
    /\ spawned = 0
    /\ lastFetch = None
    /\ loads = 0

\* no helper function is under study
NoCall == arg = <<>> /\ ret = <<>>

\* the process starts with no local provider configured
Init == InitWith({EmptyDoc}) /\ NoCall

Initialize == initialize(TaskFetches) /\ UNCHANGED pureVars

Submit == \E t \in TaskIds \cup {None}, job \in Jobs : submit_task(t, job) /\ UNCHANGED pureVars

\* the external task store answers every PUT
Reliable == {TRUE}

Cancel == \E t \in TaskIds : cancel_task(t, Reliable) /\ UNCHANGED pureVars

Status == \E t \in TaskIds : get_task_status(t) /\ UNCHANGED pureVars

Start == \E i \in 1..Len(execs) : ProcessTaskStart(i, Reliable) /\ UNCHANGED pureVars

DispatchStep == \E i \in 1..Len(execs) : Dispatch(i, Reliable) /\ UNCHANGED pureVars

ExtractDone == \E i \in 1..Len(execs) : ResumeExtract(i, Reliable) /\ UNCHANGED pureVars

LLMDone == \E i \in 1..Len(execs) : ResumeLLM(i, Reliable) /\ UNCHANGED pureVars

McpDone == \E i \in 1..Len(execs) : ResumeMcp(i, Reliable) /\ UNCHANGED pureVars

CompileDone == \E i \in 1..Len(execs) : ResumeCompile(i, Reliable) /\ UNCHANGED pureVars

Return == \E i \in 1..Len(execs) : ProcessTaskReturn(i) /\ UNCHANGED pureVars

Shutdown == shutdown /\ UNCHANGED pureVars

Next ==
    \/ Initialize
    \/ Submit
    \/ Cancel
    \/ Status
    \/ Start
    \/ DispatchStep
    \/ ExtractDone
    \/ LLMDone
    \/ McpDone
    \/ CompileDone
    \/ Return
    \/ Shutdown

Spec == Init /\ [][Next]_vars

\* the configuration chain alone, over every document of the bounded universe
ConfigInitialize == initialize(FetchOutcomes) /\ UNCHANGED pureVars

ConfigReload == reload_llm_config(FetchOutcomes, LocalDocs) /\ UNCHANGED pureVars

ConfigNext == ConfigInitialize \/ ConfigReload

ConfigInit == InitWith(LocalDocs) /\ NoCall

ConfigSpec == ConfigInit /\ [][ConfigNext]_vars


(***************************************************************************)
(* Claims about the task registry, checked under Spec.                     *)
(***************************************************************************)
InFlight(t) == \E i \in 1..Len(execs) : execs[i].id = t

CallEvents == {"extract", "llm", "mcp", "compile"}

\* C1: once a task's recorded status is completed, failed or cancelled, no
\* later operation (an execution finishing, Cancel, a repeated Submit) changes
\* that status for as long as the record is in the map.
C1_TerminalStatusIsFinal ==
    [][\A t \in TaskIds :
          (tasks[t].status \in Terminal /\ tasks'[t] # NoRecord)
             => tasks'[t].status = tasks[t].status]_vars

\* C2: every completed record has a non-empty result and no error, and every
\* failed record has a non-empty error and no result.
C2_ExactlyOneOfResultError ==
    \A t \in TaskIds :
       /\ tasks[t].status = "completed" => (Truthy(tasks[t].result) /\ tasks[t].error = None)
       /\ tasks[t].status = "failed" => (Truthy(tasks[t].error) /\ tasks[t].result = None)

\* C3: once Cancel has set the recorded status to cancelled, the recorded
\* status stays cancelled and no completed or failed update reaches the
\* external task store for that task.
C3_CancelledStaysCancelled ==
    [][\A t \in TaskIds :
          tasks[t].status = "cancelled"
             => /\ tasks'[t] # NoRecord => tasks'[t].status = "cancelled"
                /\ store'[t] # store[t] => store'[t] \notin {"completed", "failed"}]_vars

\* C4: a task whose Submit was answered "deferred" is not dropped: once the
\* orchestrator is operational and no execution of the task is in flight, the
\* task has been executed to a terminal status.
C4_DeferredTaskIsExecuted ==
    \A t \in deferred :
       (running /\ ~InFlight(t)) => tasks[t].status \in Terminal

\* C5: when the orchestrator is operational Submit answers "accepted" with the
\* execution not yet run; the execution's first step creates the record at
\* running, and the first thing any execution sends is the running
\* notification: no provider call or downstream call precedes it.
C5_RunningNoticeBeforeCalls ==
    /\ [](/\ reply.body = "accepted"
             => (execs # <<>> /\ execs[Len(execs)].pc = "spawned" /\ execs[Len(execs)].out = <<>>)
          /\ \A i \in 1..Len(execs) :
                /\ execs[i].pc # "spawned" => execs[i].out # <<>>
                /\ execs[i].out # <<>> => execs[i].out[1] = "notify_running")
    /\ [][\A i \in 1..Len(execs) :
             (Len(execs') >= Len(execs) /\ execs[i].pc = "spawned" /\ execs'[i].pc # "spawned")
                => (tasks'[execs[i].id].status = "running" /\ execs'[i].out = <<"notify_running">>)]_vars

\* an execution has started a provider or downstream call after its running notice
C5_Witness ==
    \E i \in 1..Len(execs) :
       /\ Len(execs[i].out) >= 2
       /\ execs[i].out[1] = "notify_running"
       /\ execs[i].out[2] \in CallEvents

\* C10: whatever error the dispatch raised, when process_task returns the task
\* record (if the map still holds it) is at failed with that error's message,
\* and a failed notification was the last thing sent.
C10_DispatchErrorEndsFailed ==
    [][\A i \in 1..Len(execs) :
          (execs[i].pc = "await_done" /\ execs[i].outcome = "raised"
             /\ execs' = Remove(execs, i) /\ tasks'[execs[i].id] # NoRecord)
            => /\ tasks'[execs[i].id].status = "failed"
               /\ tasks'[execs[i].id].error = execs[i].msg
               /\ execs[i].out[Len(execs[i].out)] = "notify_failed"]_vars

(***************************************************************************)
(* Claims about the configuration chain, checked under ConfigSpec.         *)
(***************************************************************************)
\* what a status request reads: AgentManager.get_llm_status
get_llm_status ==
    LET is_configured == /\ current_provider # None
                         /\ llm_config # NoConfig
                         /\ key_strip(llm_config.api_key) # ""
    IN  [configured |-> is_configured,
         provider |-> current_provider,
         model |-> IF is_configured THEN llm_config.model ELSE None,
         source |-> llm_status.source,
         available_providers |->
             [i \in 1..Len(llm_status.providers) |-> llm_status.providers[i].name],
         status |-> llm_status]

\* what an Invoke does first: the guard of _call_llm, then the client of the
\* active provider is the one contacted
_call_llm ==
    IF ~ProviderReady(current_provider, llm_clients) THEN LLM_UNCONFIGURED
    ELSE "contacts " \o current_provider

\* the last load applied a document (the fetched one or the local one)
Loaded == lastFetch \notin {None, "http500"}

\* positions of the loaded set for which the load constructed a client
Usable == {i \in 1..Len(llm_status.providers) : llm_status.providers[i].configured}

\* C6: whenever the remote fetch of the last load failed (timeout, connection
\* refused, non-2xx answer), the configuration in force is the one of the local
\* fallback source.
C6_FetchFailureFallsBack ==
    lastFetch \in {"timeout", "refused", "http500"}
       => llm_status = StatusOf("local", settings)

\* C7: after a load whose set has a provider with a constructed client, the
\* active provider is the declared default if it is in the set with a client
\* constructed for it, and otherwise the first provider of the set with one.
C7_DefaultElseFirstUsable ==
    (Loaded /\ Usable # {})
       => LET st == llm_status
              first == CHOOSE i \in Usable : \A j \in Usable : i <= j
          IN  IF \E i \in Usable : st.providers[i].name = st.default_provider
              THEN current_provider = st.default_provider
              ELSE current_provider = st.providers[first].name

\* C8: after a Reload whose loaded configuration has no usable provider there
\* is no active provider, and an Invoke fails with the configuration error
\* without contacting a provider.
C8_NoUsableProviderMeansNone ==
    (reply.op = "reload" /\ Loaded /\ Usable = {})
       => (current_provider = None /\ _call_llm = LLM_UNCONFIGURED)

\* C9: what a reader observes comes from one load: the active provider is a
\* member of the provider set of the status snapshot, and the configuration
\* entry used for it is that member's entry.
C9_ReadersSeeOneLoad ==
    LET view == get_llm_status
    IN  view.provider # None
          => \E i \in 1..Len(view.status.providers) :
                /\ view.status.providers[i].name = view.provider
                /\ view.status.providers[i] = StatusEntry(llm_config)

(***************************************************************************)
(* The task registry with a task store that may fail to take an update     *)
(* (_update_backend_task catches the error and logs a warning).            *)
(***************************************************************************)
Lossy == BOOLEAN

\* the tool types of the lossy specification: one of each kind of flow
LossyJobs == {j \in Jobs : j.tool_type \in {"scheduler", "chart_data_generator", "video"}}

LossyInitialize == initialize({[kind |-> "ok", doc |-> OpenAIDoc], [kind |-> "ok", doc |-> AnthropicDoc]}) /\ UNCHANGED pureVars

LossySubmit == \E t \in TaskIds, job \in LossyJobs : submit_task(t, job) /\ UNCHANGED pureVars

LossyCancel == \E t \in TaskIds : cancel_task(t, Lossy) /\ UNCHANGED pureVars

LossyStart == \E i \in 1..Len(execs) : ProcessTaskStart(i, Lossy) /\ UNCHANGED pureVars

LossyDispatch == \E i \in 1..Len(execs) : Dispatch(i, Lossy) /\ UNCHANGED pureVars

LossyLLMDone == \E i \in 1..Len(execs) : ResumeLLM(i, Lossy) /\ UNCHANGED pureVars

LossyMcpDone == \E i \in 1..Len(execs) : ResumeMcp(i, Lossy) /\ UNCHANGED pureVars

LossyReturn == \E i \in 1..Len(execs) : ProcessTaskReturn(i) /\ UNCHANGED pureVars

LossyNext ==
    \/ LossyInitialize
    \/ LossySubmit
    \/ LossyCancel
    \/ LossyStart
    \/ LossyDispatch
    \/ LossyLLMDone
    \/ LossyMcpDone
    \/ LossyReturn

LossySpec == Init /\ [][LossyNext]_vars

Last(s) == s[Len(s)]

NoticeStatus(ev) ==
    CASE ev = "notify_running" -> "running"
      [] ev = "notify_completed" -> "completed"
      [] ev = "notify_failed" -> "failed"
      [] OTHER -> None

Notices(out) == {k \in 1..Len(out) : NoticeStatus(out[k]) # None}

\* C11: a notification the task store did not take leaves the record as the
\* step wrote it, is not sent again, and the execution (or Cancel) goes on as
\* it does when the notification is taken: the record holds the notified
\* status, the execution reaches the same position, Cancel answers success, and
\* an execution sends one running notice and at most one terminal notice.
C11_LostNoticeChangesNothing ==
    /\ [](\A i \in 1..Len(execs) :
             /\ Cardinality(Notices(execs[i].out)) <= 2
             /\ Cardinality({k \in Notices(execs[i].out) : execs[i].out[k] = "notify_running"}) <= 1)
    /\ [][/\ \A i \in 1..Len(execs) :
               (/\ Len(execs') >= Len(execs)
                /\ Len(execs'[i].out) > Len(execs[i].out)
                /\ NoticeStatus(Last(execs'[i].out)) # None
                /\ store'[execs[i].id] # NoticeStatus(Last(execs'[i].out)))
                  => /\ tasks[execs[i].id] # NoRecord \/ Last(execs'[i].out) = "notify_running"
                        => tasks'[execs[i].id].status = NoticeStatus(Last(execs'[i].out))
                     /\ \A t \in TaskIds \ {execs[i].id} : tasks'[t] = tasks[t]
                     /\ execs'[i].pc = IF Last(execs'[i].out) = "notify_running"
                                       THEN "await_running" ELSE "await_done"
           /\ \A t \in TaskIds :
                (reply'.op = "cancel" /\ tasks[t] # NoRecord /\ tasks'[t] # tasks[t])
                  => (tasks'[t].status = "cancelled" /\ reply'.body = "success")]_vars

\* a completed notification was lost: the record is completed, the store is not
C11_Witness ==
    \E i \in 1..Len(execs) :
       /\ execs[i].pc = "await_done"
       /\ Last(execs[i].out) = "notify_completed"
       /\ tasks[execs[i].id].status = "completed"
       /\ store[execs[i].id] \in {"pending", "running"}

\* C12: Cancel on an id that is not in the task map answers not-found with no
\* error status, creates no record, changes no record, sends nothing to the
\* task store and touches no execution; no Cancel ever creates a record.
C12_CancelUnknownIdIsInert ==
    [][reply'.op = "cancel"
         => /\ reply'.code = 200
            /\ reply'.body = "not_found"
                 => (tasks' = tasks /\ store' = store /\ execs' = execs)
            /\ (\A t \in TaskIds : tasks[t] = NoRecord) => reply'.body = "not_found"
            /\ \A t \in TaskIds : tasks[t] = NoRecord => tasks'[t] = NoRecord]_vars

\* Cancel of an unknown id was answered while another task has a record
C12_Witness ==
    /\ reply.op = "cancel"
    /\ reply.body = "not_found"
    /\ \E t, u \in TaskIds : tasks[t] = NoRecord /\ tasks[u].status = "running"

\* the events execution i appended to its log in this step
NewEvents(i) == SubSeq(execs'[i].out, Len(execs[i].out) + 1, Len(execs'[i].out))

\* C13: no step of an execution holds the scheduler for the duration of an
\* outbound call: a step that starts a provider call or a downstream call ends
\* there, with the call outstanding, so that Status and Submit can be served
\* before the answer arrives.
C13_CallsSuspendTheExecution ==
    [][\A i \in 1..Len(execs) :
          Len(execs') >= Len(execs)
             => \A k \in 1..Len(NewEvents(i)) :
                   NewEvents(i)[k] \in CallEvents => k = Len(NewEvents(i))]_vars

\* execution i has written the record and has a write of it still ahead
Writing(i) == execs[i].pc \notin {"spawned", "await_done"}

\* C14: at most one execution writes a given task id's record at a time: no
\* two executions of one id are both between their first and their last write.
C14_OneWriterPerTaskId ==
    \A i, j \in 1..Len(execs) :
       (i # j /\ execs[i].id = execs[j].id) => ~(Writing(i) /\ Writing(j))

(***************************************************************************)
(* Startup: the task startup_event schedules is run by the event loop.     *)
(***************************************************************************)
\* every kind of answer of the remote source, with and without a usable provider
StartupFetches ==
    {[kind |-> "ok", doc |-> d] : d \in {EmptyDoc, OpenAIDoc, AnthropicDoc}}
      \cup [kind : {"timeout", "refused", "http500", "badjson"}, doc : {None}]

StartupInitialize == initialize(StartupFetches) /\ UNCHANGED pureVars

StartupReload == reload_llm_config(StartupFetches, LocalDocs) /\ UNCHANGED pureVars

StartupNext == StartupInitialize \/ StartupReload

StartupSpec == ConfigInit /\ [][StartupNext]_vars /\ WF_vars(StartupInitialize)

LLMAuthored(job) == job.tool_type \in {"chart_data_generator", "ppt", "ppt_generator"}

HasEvent(out, ev) == \E k \in 1..Len(out) : out[k] = ev

\* execution i goes from position pc to the end of its dispatch in this step
EndsFrom(i, pc) ==
    /\ Len(execs') >= Len(execs)
    /\ execs[i].pc = pc
    /\ execs'[i].pc # pc

\* C16 as stated: an LLM-authored task with valid parameters that runs while no
\* provider is active fails with the missing-configuration message and calls
\* no provider, in the project-archive flow too.
C16_NoProviderFailsWithConfigError ==
    [][\A i \in 1..Len(execs) :
          (/\ LLMAuthored(execs[i].job)
           /\ running /\ tasks[execs[i].id] # NoRecord
           /\ ~ProviderReady(current_provider, llm_clients)
           /\ EndsFrom(i, "await_running") \/ EndsFrom(i, "await_extract")
           /\ execs'[i].pc = "await_done")
             => /\ execs'[i].msg = LLM_UNCONFIGURED
                /\ tasks'[execs[i].id].status = "failed"
                /\ ~HasEvent(execs'[i].out, "llm")]_vars

\* C16 amended: when the authoring step of an LLM-authored task is reached
\* with no provider active, the execution ends there, no provider call is made
\* and the record (if the map holds it) is failed with the missing-configuration
\* message; the project-archive flow reaches the authoring step only after its
\* extraction call, and fails with the extraction error when that call fails.
C16_NoProviderNoCall ==
    [][\A i \in 1..Len(execs) :
          (/\ LLMAuthored(execs[i].job)
           /\ ~ProviderReady(current_provider, llm_clients)
           /\ \/ EndsFrom(i, "await_running") /\ ~IsProject(execs[i].job)
              \/ EndsFrom(i, "await_extract"))
             => /\ execs'[i].pc = "await_done"
                /\ execs'[i].outcome = "raised"
                /\ ~HasEvent(execs'[i].out, "llm")
                /\ execs'[i].msg \in
                     IF IsProject(execs[i].job) THEN {LLM_UNCONFIGURED, "extract failed"}
                     ELSE {LLM_UNCONFIGURED}
                /\ tasks[execs[i].id] # NoRecord
                     => /\ tasks'[execs[i].id].status = "failed"
                        /\ tasks'[execs[i].id].error = execs'[i].msg]_vars

\* an LLM-authored task failed on the missing configuration, with no provider call
C16_Witness ==
    \E i \in 1..Len(execs) :
       /\ LLMAuthored(execs[i].job)
       /\ execs[i].pc = "await_done"
       /\ execs[i].msg = LLM_UNCONFIGURED
       /\ ~HasEvent(execs[i].out, "llm")
       /\ tasks[execs[i].id].status = "failed"
       /\ tasks[execs[i].id].error = LLM_UNCONFIGURED

DirectProxy(job) ==
    job.tool_type \in {"chart", "chart_generator", "scheduler", "api-docs", "api_doc_generator"}

\* execution i returns in this step
Returns(i) == execs[i].pc = "await_done" /\ execs' = Remove(execs, i)

\* C17: a direct-proxy task whose downstream call failed ends failed with the
\* downstream-service message: when its execution returns while the process
\* serves, the record is in the map, failed, with that message.
C17_DownstreamFailureEndsFailed ==
    [][\A i \in 1..Len(execs) :
          (/\ Returns(i)
           /\ DirectProxy(execs[i].job)
           /\ execs[i].msg = "downstream service error"
           /\ Serving)
             => /\ tasks'[execs[i].id] # NoRecord
                /\ tasks'[execs[i].id].status = "failed"
                /\ tasks'[execs[i].id].error = "downstream service error"]_vars

InTable(job) ==
    \/ job.tool_type \in {"ppt", "ppt_generator", "chart_data_generator"}
    \/ DirectProxy(job)

\* C18: an execution whose tool type is outside the dispatch table fails at the
\* dispatch with the unsupported-tool-type error without any provider or
\* downstream call, and when it returns while the process serves the record is
\* failed with that error.
C18_UnknownToolTypeEndsFailed ==
    [][\A i \in 1..Len(execs) :
          ~InTable(execs[i].job) =>
             /\ (execs[i].pc = "await_running" /\ Len(execs') = Len(execs)
                 /\ execs'[i] # execs[i])
                   => /\ execs'[i].msg = "unsupported tool type"
                      /\ \A ev \in CallEvents : ~HasEvent(execs'[i].out, ev)
             /\ (Returns(i) /\ Serving)
                   => /\ \A ev \in CallEvents : ~HasEvent(execs[i].out, ev)
                      /\ tasks'[execs[i].id].status = "failed"
                      /\ tasks'[execs[i].id].error = "unsupported tool type"]_vars

DocumentFlow(job) == job.tool_type \in {"ppt", "ppt_generator"}

\* C19: in a document flow, the step that follows the compiler's answer (the
\* markup exists by then) never fails the task: the execution ends its
\* dispatch normally and the record is completed with a result that holds
\* the markup, with the artifact, with the compilation error, or with the
\* compiler's own body when that body does not announce success.
C19_CompileFailureStillCompletes ==
    [][\A i \in 1..Len(execs) :
          (DocumentFlow(execs[i].job) /\ EndsFrom(i, "await_compile") /\ Serving)
             => /\ execs'[i].outcome # "raised"
                /\ tasks'[execs[i].id].status = "completed"
                /\ tasks'[execs[i].id].result \in
                      {"latex_and_pdf", "latex_and_compile_error", "latex_without_pdf"}]_vars

\* C20: when the dispatch of a project-archive task returns after the compiler
\* answered (the compiler call raised nothing), what it returns is the result
\* mapping with the markup and the artifact path, with the style variant as
\* without it.
C20_ProjectSuccessReturnsMapping ==
    [][\A i \in 1..Len(execs) :
          (IsProject(execs[i].job) /\ EndsFrom(i, "await_compile")
           /\ execs'[i].outcome = "returned")
             => execs'[i].msg = "latex_and_pdf"]_vars

(***************************************************************************)
(* The extraction helpers _extract_json_data and _extract_latex_code.      *)
(* A response text is a sequence of tokens: the fence of three backticks,  *)
(* the tag words, white space, braces, the \documentclass marker and other *)
(* words.                                                                  *)
(***************************************************************************)
\* the fence token stands for three backticks
FENCE == "fence"

WS == " "

DOC_START == "\\documentclass"

MaxTextLen == 5

MaxBlockLen == 2

Min(S) == CHOOSE k \in S : \A m \in S : k <= m

Max(S) == CHOOSE k \in S : \A m \in S : k >= m

\* str.strip()
strip(s) ==
    LET solid == {k \in 1..Len(s) : s[k] # WS}
    IN  IF solid = {} THEN <<>> ELSE SubSeq(s, Min(solid), Max(solid))

NoMatch == [matched |-> FALSE, group |-> <<>>]

\* the two fence patterns of re.search (DOTALL); tag is empty for the untagged
\* pattern: the leftmost fence (followed by the tag) that has a later fence,
\* and the lazy group between it and the first such fence, white space aside
search_fence(s, tag) ==
    LET off == IF tag = "" THEN 0 ELSE 1
        closes(i) == {j \in (i + off + 1)..Len(s) : s[j] = FENCE}
        opens == {i \in 1..Len(s) :
                    /\ s[i] = FENCE
                    /\ tag # "" => (i + 1 <= Len(s) /\ s[i + 1] = tag)
                    /\ closes(i) # {}}
    IN  IF opens = {} THEN NoMatch
        ELSE LET i == Min(opens)
                 j == Min(closes(i))
             IN  [matched |-> TRUE, group |-> strip(SubSeq(s, i + off + 1, j - 1))]

\* the brace pattern of re.search (DOTALL): greedy, from the first opening
\* brace to the last closing brace after it
search_braces(s) ==
    LET opens == {i \in 1..Len(s) : s[i] = "{" /\ \E j \in (i + 1)..Len(s) : s[j] = "}"}
    IN  IF opens = {} THEN NoMatch
        ELSE LET i == Min(opens)
                 j == Max({k \in (i + 1)..Len(s) : s[k] = "}"})
             IN  [matched |-> TRUE, group |-> SubSeq(s, i, j)]

\* the document-start pattern of re.search (DOTALL): from the first marker to
\* the end of the text
search_documentclass(s) ==
    LET marks == {i \in 1..Len(s) : s[i] = DOC_START}
    IN  IF marks = {} THEN NoMatch
        ELSE [matched |-> TRUE, group |-> SubSeq(s, Min(marks), Len(s))]

\* the first fence rule tried, with the fences in the other order
_extract_GenericFirst(response, tag, structural) ==
    IF search_fence(response, "").matched THEN strip(search_fence(response, "").group)
    ELSE IF search_fence(response, tag).matched THEN strip(search_fence(response, tag).group)
    ELSE IF structural.matched THEN strip(structural.group)
    ELSE strip(response)

\* the body the two helpers share: tagged fence, any fence, structural match,
\* the response itself
_extract(response, tag, structural) ==
    IF search_fence(response, tag).matched THEN strip(search_fence(response, tag).group)
    ELSE IF search_fence(response, "").matched THEN strip(search_fence(response, "").group)
    ELSE IF structural.matched THEN strip(structural.group)
    ELSE strip(response)

_extract_json_data(response) == _extract(response, "json", search_braces(response))

_extract_latex_code(response) == _extract(response, "latex", search_documentclass(response))

TagOf(fn) == IF fn = "_extract_json_data" THEN "json" ELSE "latex"

\* every response of up to MaxTextLen tokens in the helper's own vocabulary
ShortTexts(fn) ==
    SeqsUpTo(IF fn = "_extract_json_data"
             THEN {FENCE, "json", WS, "x", "{", "}"}
             ELSE {FENCE, "latex", WS, "x", DOC_START}, MaxTextLen)

\* the content of a tagged block: no fence in it
TaggedContents == SeqsUpTo({WS, "x", "{"}, MaxBlockLen)

\* the content of a generic block: no fence in it, and no expected tag at its start
GenericContents(fn) ==
    {y \in SeqsUpTo({WS, "y", TagOf(fn)}, MaxBlockLen) : y = <<>> \/ y[1] # TagOf(fn)}

\* a response with one tagged block and one generic block, in either order,
\* with text without fences around and between them
TwoBlockInputs(fn) ==
    {[fn |-> fn,
      response |-> pre \o (IF taggedFirst
                           THEN <<FENCE, TagOf(fn)>> \o x \o <<FENCE>> \o sep \o <<FENCE>> \o y \o <<FENCE>>
                           ELSE <<FENCE>> \o y \o <<FENCE>> \o sep \o <<FENCE, TagOf(fn)>> \o x \o <<FENCE>>)
                       \o post,
      blocks |-> <<x, y>>] :
        pre \in {<<>>, <<"x", WS>>, <<"{", "}", WS>>, <<DOC_START, WS>>},
        sep \in {<<WS>>, <<WS, "x", WS>>},
        post \in {<<>>, <<WS, "x">>},
        taggedFirst \in BOOLEAN,
        x \in TaggedContents,
        y \in GenericContents(fn)}

ExtractFns == {"_extract_json_data", "_extract_latex_code"}

ExtractInputs ==
    UNION {{[fn |-> fn, response |-> t, blocks |-> <<>>] : t \in ShortTexts(fn)} \cup TwoBlockInputs(fn)
             : fn \in ExtractFns}

ExtractInit == InitWith({EmptyDoc}) /\ arg \in ExtractInputs /\ ret = <<>>

ExtractJson ==
    /\ arg.fn = "_extract_json_data"
    /\ ret = <<>>
    /\ ret' = <<_extract_json_data(arg.response)>>
    /\ UNCHANGED <<arg, progVars>>

ExtractLatex ==
    /\ arg.fn = "_extract_latex_code"
    /\ ret = <<>>
    /\ ret' = <<_extract_latex_code(arg.response)>>
    /\ UNCHANGED <<arg, progVars>>

ExtractNext == ExtractJson \/ ExtractLatex

ExtractSpec == ExtractInit /\ [][ExtractNext]_vars

\* C21: for a response that holds a block fenced with the expected tag and a
\* generic fenced block before or after it, the helper returns the trimmed
\* content of the tagged block.
C21_TaggedBlockWins ==
    (ret # <<>> /\ arg.blocks # <<>>) => ret[1] = strip(arg.blocks[1])

\* the generic block came first, both blocks have content, and the helper ran
C21_Witness ==
    /\ ret # <<>>
    /\ arg.blocks # <<>>
    /\ arg.response[1] = FENCE /\ arg.response[2] = "y"
    /\ strip(arg.blocks[1]) # <<>>
    /\ strip(arg.blocks[1]) # strip(arg.blocks[2])
    /\ ret[1] = strip(arg.blocks[1])

\* opening braces minus closing braces in s[i..k]
Depth(s, i, k) ==
    Cardinality({m \in i..k : s[m] = "{"}) - Cardinality({m \in i..k : s[m] = "}"})

\* s[i..j] is a balanced brace span
BalancedSpan(s, i, j) ==
    /\ s[i] = "{"
    /\ s[j] = "}"
    /\ Depth(s, i, j) = 0
    /\ \A k \in i..(j - 1) : Depth(s, i, k) > 0

\* the first balanced brace span of s, if it has one
FirstBalanced(s) ==
    LET starts == {i \in 1..Len(s) : \E j \in i..Len(s) : BalancedSpan(s, i, j)}
    IN  IF starts = {} THEN NoMatch
        ELSE LET i == Min(starts)
             IN  [matched |-> TRUE,
                  group |-> SubSeq(s, i, CHOOSE j \in i..Len(s) : BalancedSpan(s, i, j))]

\* the rule order of the extraction, with the structural rule given
FirstRuleThatMatches(response, tag, structural) ==
    IF search_fence(response, tag).matched THEN search_fence(response, tag).group
    ELSE IF search_fence(response, "").matched THEN search_fence(response, "").group
    ELSE IF structural.matched THEN structural.group
    ELSE strip(response)

\* C22: the helper returns what the first matching rule gives, in the order
\* tagged fence, any fence, structural match (the first balanced brace span
\* for JSON, the text from the document-start marker on for markup), and the
\* trimmed response when no rule matches.
C22_FirstMatchingRuleWins ==
    ret # <<>> =>
       ret[1] = FirstRuleThatMatches(arg.response, TagOf(arg.fn),
                   IF arg.fn = "_extract_json_data"
                   THEN FirstBalanced(arg.response)
                   ELSE [search_documentclass(arg.response) EXCEPT
                           !.group = strip(search_documentclass(arg.response).group)])

(***************************************************************************)
(* The three adapters behind _call_llm, applied to a provider's response.     *)
(* A response is the sequence the adapter indexes (choices, content blocks,   *)
(* parts of the first candidate); an element holds a text or does not.     *)
(***************************************************************************)
MaxReplyLen == 3

TextBlock(t) == [kind |-> "text", text |-> t]

\* a content block of another variant (tool use); str() of it is its repr
OtherBlock == [kind |-> "other", text |-> <<>>]

Returned(v) == [raised |-> FALSE, value |-> v, error |-> None]

Raised(e) == [raised |-> TRUE, value |-> <<>>, error |-> e]

\* response.choices[0].message.content.strip()
_call_openai_compatible(response) ==
    IF response = <<>> THEN Raised("IndexError")
    ELSE IF response[1].kind # "text" THEN Raised("AttributeError")
    ELSE Returned(strip(response[1].text))

\* the format check of _call_anthropic and what it returns
_call_anthropic(response) ==
    IF Len(response) > 0
    THEN IF response[1].kind = "text" THEN Returned(response[1].text)
         ELSE Returned(<<"repr">>)
    ELSE Raised("malformed response")

\* response.candidates[0].content.parts[0].text
_call_gemini(response) ==
    IF response = <<>> THEN Raised("IndexError")
    ELSE Returned(response[1].text)

\* the adapter chosen by _call_llm for a provider that has a client
Invoke(provider, response) ==
    IF AwaitedFamily(provider) THEN _call_openai_compatible(response)
    ELSE IF provider = "anthropic" THEN _call_anthropic(response)
    ELSE IF provider = "gemini" THEN _call_gemini(response)
    ELSE Raised("unsupported provider")

ReplyTexts == SeqsUpTo({WS, "x", "y"}, MaxReplyLen)

\* replies whose elements all hold text: one element, or two
TextReplies ==
    {<<>>} \cup {<<TextBlock(t)>> : t \in ReplyTexts}
           \cup {<<TextBlock(t), TextBlock(<<"y">>)>> : t \in ReplyTexts}

\* replies of the structured-turn API: text blocks and blocks of another variant
StructuredReplies ==
    TextReplies \cup SeqsUpTo({TextBlock(<<"x">>), TextBlock(<<>>), OtherBlock}, 2)

InvokeInputs ==
    {[provider |-> p, reply |-> r] : p \in {"openai", "deepseek", "gemini"}, r \in TextReplies}
      \cup {[provider |-> "anthropic", reply |-> r] : r \in StructuredReplies}

InvokeInit == InitWith({EmptyDoc}) /\ arg \in InvokeInputs /\ ret = <<>>

InvokeOpenAI ==
    /\ AwaitedFamily(arg.provider)
    /\ ret = <<>>
    /\ ret' = <<Invoke(arg.provider, arg.reply)>>
    /\ UNCHANGED <<arg, progVars>>

InvokeAnthropic ==
    /\ arg.provider = "anthropic"
    /\ ret = <<>>
    /\ ret' = <<Invoke(arg.provider, arg.reply)>>
    /\ UNCHANGED <<arg, progVars>>

InvokeGemini ==
    /\ arg.provider = "gemini"
    /\ ret = <<>>
    /\ ret' = <<Invoke(arg.provider, arg.reply)>>
    /\ UNCHANGED <<arg, progVars>>

InvokeNext == InvokeOpenAI \/ InvokeAnthropic \/ InvokeGemini

InvokeSpec == InvokeInit /\ [][InvokeNext]_vars

\* C23: a response that carries one text makes Invoke return a string, and the
\* string is the one every other adapter family returns for a response carrying
\* the same text.
C23_SameStringWhicheverFamily ==
    (ret # <<>> /\ Len(arg.reply) = 1 /\ arg.reply[1].kind = "text")
       => /\ ~ret[1].raised
          /\ \A p \in {"openai", "anthropic", "gemini"} :
                Invoke(p, arg.reply) = ret[1]

\* C24: in the structured-turn adapter a response without content blocks, or
\* whose first block has no text variant, makes Invoke fail with the
\* malformed-response error and return no string.
C24_NoTextVariantIsMalformed ==
    (ret # <<>> /\ arg.provider = "anthropic"
       /\ (arg.reply = <<>> \/ arg.reply[1].kind # "text"))
       => (ret[1].raised /\ ret[1].error = "malformed response")

(***************************************************************************)
(* The configuration chain over credentials that are empty, white space,   *)
(* the placeholder of the configuration template, or a key.                *)
(***************************************************************************)
PLACEHOLDER == "your_api_key_here"

CredKeys == {"", " ", PLACEHOLDER, "sk-1"}

\* Settings.is_provider_configured for the providers that take a credential
is_provider_configured(k) == Truthy(k) /\ key_strip(k) # "" /\ k \notin {"", PLACEHOLDER}

CredDocs ==
    {[default |-> d, providers |-> <<Entry(n, k)>>] :
        d \in ProviderNames, n \in ProviderNames, k \in CredKeys}

CredLocalDocs == {doc \in CredDocs : doc.default = "openai" /\ doc.providers[1].name = "openai"}

CredFetches ==
    [kind : {"ok"}, doc : CredDocs] \cup [kind : {"timeout"}, doc : {None}]

CredInitialize == initialize(CredFetches) /\ UNCHANGED pureVars

CredReload == reload_llm_config(CredFetches, CredLocalDocs) /\ UNCHANGED pureVars

CredNext == CredInitialize \/ CredReload

CredInit == InitWith(CredLocalDocs) /\ NoCall

CredSpec == CredInit /\ [][CredNext]_vars

\* C25: a provider counts as configured exactly when its credential is
\* non-empty after trimming and is not the placeholder. Seen on a load from
\* the local source, whose document is the settings: every entry of the status
\* snapshot has configured equal to that test on the entry's credential, after
\* the first load a provider that fails the test has no client, and the status
\* request answers configured only for an active entry that passes it.
C25_ConfiguredIffRealCredential ==
    (llm_status.source = "local" /\ Loaded)
       => /\ Len(llm_status.providers) = Len(settings.providers)
          /\ \A i \in 1..Len(settings.providers) :
                /\ llm_status.providers[i].configured
                      = is_provider_configured(settings.providers[i].api_key)
                /\ (loads = 1 /\ ~is_provider_configured(settings.providers[i].api_key))
                      => ~HasKey(llm_clients, settings.providers[i].name)
          /\ get_llm_status.configured => is_provider_configured(llm_config.api_key)

(***************************************************************************)
(* The archive _handle_latex_project posts to /generate_beamer_from_project.*)
(* An archive is the set of its entries (name, content); two entries of    *)
(* one name are two elements, as a zip file may hold them.                 *)
(***************************************************************************)
FileNames == {"main.tex", "paper.tex", "fig.png", "refs.bib", "images/ucas.png"}

TexNames == {"main.tex", "paper.tex"}

\* what _prepare_ucas_resources copies when the style directory is there
UCAS_RESOURCES == {"images/ucas.png"}

ZipEntry(n, c) == [name |-> n, content |-> c]

\* the archive_file and the form fields of the compile request
compile_request(original, main_tex_filename, use_ucas_style, resource_map) ==
    IF use_ucas_style /\ resource_map # {}
    THEN [archive |-> {ZipEntry("main.tex", "beamer")}
                        \cup {ZipEntry(f, "original") : f \in original \ {main_tex_filename}}
                        \cup {ZipEntry(r, "ucas") : r \in resource_map},
          beamer_content |-> "beamer",
          main_tex_filename |-> "main.tex"]
    ELSE [archive |-> {ZipEntry(f, "original") : f \in original},
          beamer_content |-> "beamer",
          main_tex_filename |-> main_tex_filename]

RepackInputs ==
    {[original |-> o, main_tex_filename |-> m, use_ucas_style |-> u, resource_map |-> r] :
        o \in SUBSET FileNames \ {{}}, m \in TexNames, u \in BOOLEAN,
        r \in {{}, UCAS_RESOURCES}}

RepackInit ==
    /\ InitWith({EmptyDoc})
    /\ arg \in {a \in RepackInputs : a.main_tex_filename \in a.original}
    /\ ret = <<>>

RepackMerged ==
    /\ ret = <<>>
    /\ arg.use_ucas_style /\ arg.resource_map # {}
    /\ ret' = <<compile_request(arg.original, arg.main_tex_filename,
                                arg.use_ucas_style, arg.resource_map)>>
    /\ UNCHANGED <<arg, progVars>>

RepackOriginal ==
    /\ ret = <<>>
    /\ ~(arg.use_ucas_style /\ arg.resource_map # {})
    /\ ret' = <<compile_request(arg.original, arg.main_tex_filename,
                                arg.use_ucas_style, arg.resource_map)>>
    /\ UNCHANGED <<arg, progVars>>

RepackNext == RepackMerged \/ RepackOriginal

RepackSpec == RepackInit /\ [][RepackNext]_vars

EntriesNamed(archive, n) == {e \in archive : e.name = n}

\* C26: the archive given to the compiler has the AI-produced markup as its
\* one and only primary source entry, has every other file of the original
\* archive exactly once and unchanged, and does not have the original primary
\* source file.
C26_ArchiveIsRepackaged ==
    ret # <<>> =>
       LET req == ret[1]
       IN  /\ EntriesNamed(req.archive, req.main_tex_filename)
                 = {ZipEntry(req.main_tex_filename, "beamer")}
           /\ \A f \in arg.original \ {arg.main_tex_filename} :
                 EntriesNamed(req.archive, f) = {ZipEntry(f, "original")}
           /\ ZipEntry(arg.main_tex_filename, "original") \notin req.archive

(***************************************************************************)
(* The message conversion of _call_gemini. The callers of _call_llm build  *)
(* chat-format lists: at most one system message, first, then user and     *)
(* assistant messages.                                                     *)
(***************************************************************************)
MaxMessages == 3

Message(r, c) == [role |-> r, content |-> c]

Contents == {"a", "b"}

ChatLists ==
    {sys \o rest :
        sys \in {<<>>} \cup {<<Message("system", c)>> : c \in Contents},
        rest \in SeqsUpTo({Message(r, c) : r \in {"user", "assistant"}, c \in Contents},
                          MaxMessages)}

\* the roles the loop has a branch for
HasBranch(msg) == msg.role \in {"system", "user", "assistant"}

\* the loop with the assistant branch appending a user turn
gemini_contents_AssistantAsUser(messages) ==
    LET kept == SelectSeq(messages, HasBranch)
    IN  [i \in 1..Len(kept) |->
            IF kept[i].role = "system"
            THEN [role |-> "user", text |-> "System: " \o kept[i].content]
            ELSE [role |-> "user", text |-> kept[i].content]]

\* the loop that builds contents: one turn per message that has a branch
gemini_contents(messages) ==
    LET kept == SelectSeq(messages, HasBranch)
    IN  [i \in 1..Len(kept) |->
            IF kept[i].role = "system"
            THEN [role |-> "user", text |-> "System: " \o kept[i].content]
            ELSE IF kept[i].role = "user"
            THEN [role |-> "user", text |-> kept[i].content]
            ELSE [role |-> "model", text |-> kept[i].content]]

GeminiInit == InitWith({EmptyDoc}) /\ arg \in ChatLists /\ ret = <<>>

GeminiConvert ==
    /\ ret = <<>>
    /\ ret' = <<gemini_contents(arg)>>
    /\ UNCHANGED <<arg, progVars>>

GeminiSpec == GeminiInit /\ [][GeminiConvert]_vars

\* C27: the conversion gives one turn per message, in the order of the
\* messages: the system message gives the first turn, a user turn whose text
\* is the message's content after the prefix 'System: '; an assistant message
\* gives a model turn and a user message a user turn, each with the message's
\* content.
C27_GeminiTurnsKeepEveryMessage ==
    ret # <<>> =>
       /\ Len(ret[1]) = Len(arg)
       /\ \A i \in 1..Len(arg) :
             /\ arg[i].role = "system"
                   => (i = 1 /\ ret[1][i] = [role |-> "user", text |-> "System: " \o arg[i].content])
             /\ arg[i].role = "user"
                   => ret[1][i] = [role |-> "user", text |-> arg[i].content]
             /\ arg[i].role = "assistant"
                   => ret[1][i] = [role |-> "model", text |-> arg[i].content]

\* a converted list with a system message, an assistant message and a user message
C27_Witness ==
    /\ ret # <<>>
    /\ Len(arg) = 3
    /\ arg[1].role = "system" /\ arg[2].role = "assistant" /\ arg[3].role = "user"
    /\ Len(ret[1]) = 3
    /\ ret[1][2].role = "model"

(***************************************************************************)
(* Claims about the notifications of an execution and about Submit,        *)
(* checked under Spec.                                                     *)
(***************************************************************************)
\* C28: the terminal notification of an execution matches the outcome of its
\* dispatch: a failed notification was sent only if the dispatch raised, a
\* completed one only if the dispatch returned, whatever Shutdown or Cancel
\* did in between.
C28_NoticeMatchesDispatchOutcome ==
    \A i \in 1..Len(execs) :
       /\ HasEvent(execs[i].out, "notify_failed") => execs[i].outcome = "raised"
       /\ HasEvent(execs[i].out, "notify_completed") => execs[i].outcome = "returned"

\* the event loop runs every execution it holds, and every outbound call of an
\* execution returns or fails
LiveSpec ==
    /\ Init
    /\ [][Next]_vars
    /\ WF_vars(Start)
    /\ WF_vars(DispatchStep)
    /\ WF_vars(ExtractDone)
    /\ WF_vars(LLMDone)
    /\ WF_vars(McpDone)
    /\ WF_vars(CompileDone)

TerminalNotices(out) ==
    {k \in 1..Len(out) : out[k] \in {"notify_completed", "notify_failed"}}

\* C29: every execution that starts gets to the end of its dispatch, and by
\* then it has sent exactly one terminal notification (completed or failed),
\* after its running notification; before that it has sent none.
C29_OneTerminalNoticeEventually ==
    /\ [](\A i \in 1..Len(execs) :
             /\ Cardinality(TerminalNotices(execs[i].out))
                   = IF execs[i].pc = "await_done" THEN 1 ELSE 0
             /\ \A k \in TerminalNotices(execs[i].out) :
                   k > 1 /\ execs[i].out[1] = "notify_running")
    /\ []<>(\A i \in 1..Len(execs) : execs[i].pc = "await_done")

\* an execution has sent its running notification and then its terminal one
C29_Witness ==
    \E i \in 1..Len(execs) :
       /\ execs[i].pc = "await_done"
       /\ execs[i].out[1] = "notify_running"
       /\ Cardinality(TerminalNotices(execs[i].out)) = 1

\* C30: a Submit without a task id is answered with the client error 400,
\* creates no task record and starts no execution.
C30_MissingIdIsClientError ==
    [][(reply'.op = "submit" /\ reply'.body = "missing task_id")
          => /\ reply'.code = 400
             /\ tasks' = tasks
             /\ execs' = execs
             /\ deferred' = deferred]_vars

=============================================================================
